---- MODULE Spec2Model ----
(***************************************************************************)
(* Smart City issue detection (src/app.py): the detection report pipeline. *)
(*                                                                         *)
(*   - the Classifier rules written inline in predict, predict_video and   *)
(*     fix_departments (severity thresholds, department routing);          *)
(*   - the frame sampler loop of process_video_frames;                     *)
(*   - the report store (table "reports" plus the media files under        *)
(*     static/reports) and the request handlers that change or read it.    *)
(*                                                                         *)
(* Python values are represented as follows.                               *)
(*   str (class names)   a tuple of one-character strings, so that lower() *)
(*                       and the substring test "x in s" are computed      *)
(*   dict                a sequence of <<key, value>> pairs with distinct  *)
(*                       keys, in insertion order (Python >= 3.7)          *)
(*   None / SQL NULL     <<>>;  any other optional value v is <<v>>        *)
(*   float coordinates   integers counting tenths of a degree              *)
(*   heatmap weights     integers counting tenths (0.5 is 5)               *)
(*   datetime.now()      the variable now, in whole seconds, which is the  *)
(*                       resolution of strftime('%Y%m%d_%H%M%S')           *)
(***************************************************************************)
EXTENDS Integers, Sequences, FiniteSets, Bags, TLC

VARIABLES
    reports,            \* rows of table reports, in rowid order
    sqlite_sequence,    \* AUTOINCREMENT: the largest rowid ever assigned
    files,              \* relative paths of the media files on storage
    now,                \* the wall clock, in seconds
    resp,               \* the response of the last request handled
    fps,                \* process_video_frames: int(cap.get(CAP_PROP_FPS))
    frame_count,        \* process_video_frames: frames decoded so far
    total_summary,      \* process_video_frames: running key-wise sum
    key_frame_paths,    \* process_video_frames: saved keyframe paths
    saved_frames_count, \* process_video_frames: number of keyframes saved
    pc,                 \* process_video_frames: "idle", "loop" or "returned"
    sampled,            \* history: bag of class names detected in sampled frames
    qualifying,         \* history: number of sampled frames with a detection so far
    saved_from,         \* history: for each keyframe, which qualifying frame (1st, 2nd, ...) it shows
    c_summary,          \* SpecClassify: the summary being classified
    c_out               \* SpecClassify: the handler that ran last and the row it left

storeVars == <<reports, sqlite_sequence, files, now, resp>>
videoVars == <<fps, frame_count, total_summary, key_frame_paths,
               saved_frames_count, pc, sampled, qualifying, saved_from>>
classVars == <<c_summary, c_out>>
vars == <<reports, sqlite_sequence, files, now, resp,
          fps, frame_count, total_summary, key_frame_paths,
          saved_frames_count, pc, sampled, qualifying, saved_from,
          c_summary, c_out>>

----------------------------------------------------------------------------
(* Bounds of the model.                                                    *)

MaxReports == 2     \* rows ever inserted in one behaviour
MaxClock == 1       \* last second the clock reaches
MaxFrames == 12     \* frames a video stream delivers at most
MaxCount == 8       \* largest count of one key in a classified summary

----------------------------------------------------------------------------
(* Python values.                                                          *)

None == <<>>
Some(v) == <<v>>

UpperCase == <<"A","B","C","D","E","F","G","H","I","J","K","L","M",
               "N","O","P","Q","R","S","T","U","V","W","X","Y","Z">>
LowerCase == <<"a","b","c","d","e","f","g","h","i","j","k","l","m",
               "n","o","p","q","r","s","t","u","v","w","x","y","z">>

\* str.lower(), character by character
LowerChar(c) ==
    IF \E i \in 1..Len(UpperCase) : UpperCase[i] = c
    THEN LowerCase[CHOOSE i \in 1..Len(UpperCase) : UpperCase[i] = c]
    ELSE c
Lower(s) == [i \in 1..Len(s) |-> LowerChar(s[i])]

\* the Python test "sub in s" on strings
Contains(s, sub) ==
    \E i \in 0..(Len(s) - Len(sub)) :
        \A j \in 1..Len(sub) : s[i + j] = sub[j]

POTHOLE == <<"p","o","t","h","o","l","e">>
GARBAGE == <<"g","a","r","b","a","g","e">>

\* dict.keys(), dict.values(), dict.get(key, 0), and d[key] = value
Keys(d) == [i \in 1..Len(d) |-> d[i][1]]
HasKey(d, k) == \E i \in 1..Len(d) : d[i][1] = k
DictGet(d, k) ==
    IF HasKey(d, k) THEN d[CHOOSE i \in 1..Len(d) : d[i][1] = k][2] ELSE 0
DictSet(d, k, v) ==
    IF HasKey(d, k)
    THEN [i \in 1..Len(d) |-> IF d[i][1] = k THEN <<k, v>> ELSE d[i]]
    ELSE Append(d, <<k, v>>)

\* sum(summary.values())
RECURSIVE SumValues(_)
SumValues(d) == IF d = <<>> THEN 0 ELSE d[1][2] + SumValues(Tail(d))

\* json.dumps of a dict of str -> int: the members of the object, in order
JsonDumps(d) == [object |-> [i \in 1..Len(d) |-> [name |-> d[i][1], value |-> d[i][2]]]]
\* json.loads: members are entered in order, a repeated name overwriting
RECURSIVE LoadMembers(_, _)
LoadMembers(ms, d) ==
    IF ms = <<>> THEN d
    ELSE LoadMembers(Tail(ms), DictSet(d, ms[1].name, ms[1].value))
JsonLoads(t) == LoadMembers(t.object, <<>>)

----------------------------------------------------------------------------
(* The detector.  model.names maps a class index to its name; the names of *)
(* the custom-trained model are data, and any string may occur.            *)

names == << <<"P","o","t","h","o","l","e">>,
            <<"g","a","r","b","a","g","e">>,
            <<"c","a","r">>,
            <<"g","a","r","b","a","g","e","_","p","o","t","h","o","l","e">> >>

MAX_DET == 5

\* the summary built from result.boxes.cls, starting from summary d
RECURSIVE CountClasses(_, _)
CountClasses(cls, d) ==
    IF cls = <<>> THEN d
    ELSE CountClasses(Tail(cls),
                      DictSet(d, names[cls[1] + 1], DictGet(d, names[cls[1] + 1]) + 1))

----------------------------------------------------------------------------
(* The Classifier rules.                                                   *)

\* predict: image thresholds
ImageSeverity(summary) ==
    LET total_issues == SumValues(summary)
    IN  IF total_issues <= 1 THEN "Low"
        ELSE IF total_issues <= 3 THEN "Medium"
        ELSE "High"

\* predict_video with the thresholds compared strictly
VideoSeverityStrict(summary) ==
    LET total_issues == SumValues(summary)
    IN  IF total_issues < 5 THEN "Low"
        ELSE IF total_issues < 15 THEN "Medium"
        ELSE "High"

\* predict_video: video thresholds
VideoSeverity(summary) ==
    LET total_issues == SumValues(summary)
    IN  IF total_issues <= 5 THEN "Low"
        ELSE IF total_issues <= 15 THEN "Medium"
        ELSE "High"

\* the loop without its break on a garbage match: any pothole key wins
ScanKeysPotholeWins(keys, dflt) ==
    IF \E i \in 1..Len(keys) : Contains(Lower(keys[i]), POTHOLE)
    THEN "Roads Department"
    ELSE IF \E i \in 1..Len(keys) : Contains(Lower(keys[i]), GARBAGE)
    THEN "Department of Environment"
    ELSE dflt

\* the loop over summary.keys() with its two tests and break; dflt is the
\* value the variable holds before the loop
RECURSIVE ScanKeys(_, _)
ScanKeys(keys, dflt) ==
    IF keys = <<>> THEN dflt
    ELSE IF Contains(Lower(keys[1]), POTHOLE) THEN "Roads Department"
    ELSE IF Contains(Lower(keys[1]), GARBAGE) THEN "Department of Environment"
    ELSE ScanKeys(Tail(keys), dflt)

\* predict: department = "General", then the loop
Department(summary) == ScanKeys(Keys(summary), "General")

\* fix_departments: new_dept = "unassigned", then the loop
NewDept(summary) == ScanKeys(Keys(summary), "unassigned")

----------------------------------------------------------------------------
(* Rows of table reports.                                                  *)

\* init_db: ALTER TABLE reports ADD COLUMN department TEXT DEFAULT 'General'
DepartmentDefault == "General"

\* filename = f"report_{datetime.now().strftime('%Y%m%d_%H%M%S')}.png"
ReportPath(ts) == <<"report", ts>>
\* filename = f"video_frame_{...strftime('%Y%m%d_%H%M%S')}_{saved_frames_count}.jpg"
FramePath(ts, ordinal) == <<"video_frame", ts, ordinal>>

\* predict: the row of the INSERT
PredictRow(id, summary, latitude, longitude, ts) ==
    [id |-> id,
     image_path |-> ReportPath(ts),
     summary |-> Some(JsonDumps(summary)),
     severity |-> ImageSeverity(summary),
     latitude |-> latitude,
     longitude |-> longitude,
     created_at |-> ts,
     feedback |-> None,
     type |-> "image",
     department |-> Department(summary)]

\* predict_video: the row of the INSERT, which names no department column
VideoRow(id, summary, key_frames, ts) ==
    [id |-> id,
     image_path |-> key_frames[1],
     summary |-> Some(JsonDumps(summary)),
     severity |-> VideoSeverity(summary),
     latitude |-> None,
     longitude |-> None,
     created_at |-> ts,
     feedback |-> None,
     type |-> "video",
     department |-> DepartmentDefault]

\* fix_departments counting (and updating) only the rows whose value changes
BackfillUpdatesChangedOnly(row) ==
    /\ row.summary # None
    /\ NewDept(JsonLoads(row.summary[1])) # "unassigned"
    /\ NewDept(JsonLoads(row.summary[1])) # row.department

\* fix_departments: whether the loop body issues an UPDATE for this row
BackfillUpdates(row) ==
    /\ row.summary # None
    /\ NewDept(JsonLoads(row.summary[1])) # "unassigned"

\* fix_departments: the row after the loop body
BackfillRow(row) ==
    IF BackfillUpdates(row)
    THEN [row EXCEPT !.department = NewDept(JsonLoads(row.summary[1]))]
    ELSE row

----------------------------------------------------------------------------
(* Specification SpecClassify: the Classifier rules on one summary.  A     *)
(* summary is drawn, an image or a video submission classifies it into a   *)
(* row, and the backfill may then be run on that row.                      *)

NameSet == {names[i] : i \in 1..Len(names)}

ClassifiedSummaries ==
    {<<>>}
    \cup {<< <<k, n>> >> : k \in NameSet, n \in 1..MaxCount}
    \cup {<< <<k1, n1>>, <<k2, n2>> >> :
            <<k1, k2>> \in {p \in NameSet \X NameSet : p[1] # p[2]},
            <<n1, n2>> \in (1..MaxCount) \X (1..MaxCount)}

StoreIdle ==
    /\ reports = <<>>
    /\ sqlite_sequence = 0
    /\ files = {}
    /\ now = 0
    /\ resp = [op |-> "startup"]

VideoIdle ==
    /\ fps = 0
    /\ frame_count = 0
    /\ total_summary = <<>>
    /\ key_frame_paths = <<>>
    /\ saved_frames_count = 0
    /\ pc = "idle"
    /\ sampled = EmptyBag
    /\ qualifying = 0
    /\ saved_from = <<>>

ClassifyIdle ==
    /\ c_summary = <<>>
    /\ c_out = [rule |-> "none", row |-> None]

InitClassify ==
    /\ StoreIdle
    /\ VideoIdle
    /\ c_summary \in ClassifiedSummaries
    /\ c_out = [rule |-> "none", row |-> None]

ClassifyImage ==
    /\ c_out.rule = "none"
    /\ c_out' = [rule |-> "predict",
                 row |-> Some(PredictRow(1, c_summary, None, None, 0))]
    /\ UNCHANGED <<c_summary, storeVars, videoVars>>

ClassifyVideo ==
    /\ c_out.rule = "none"
    /\ c_summary # <<>>
    /\ c_out' = [rule |-> "predict_video",
                 row |-> Some(VideoRow(1, c_summary, <<FramePath(0, 0)>>, 0))]
    /\ UNCHANGED <<c_summary, storeVars, videoVars>>

ClassifyBackfill ==
    /\ c_out.rule \in {"predict", "predict_video"}
    /\ c_out' = [rule |-> "fix_departments",
                 row |-> Some(BackfillRow(c_out.row[1]))]
    /\ UNCHANGED <<c_summary, storeVars, videoVars>>

NextClassify == ClassifyImage \/ ClassifyVideo \/ ClassifyBackfill

SpecClassify == InitClassify /\ [][NextClassify]_vars

----------------------------------------------------------------------------
(* process_video_frames.                                                   *)

\* fps = int(cap.get(cv2.CAP_PROP_FPS)) or 30
DefaultFps == 30
FrameInterval(f) == IF f = 0 THEN DefaultFps ELSE f

\* max_saved_frames = 10
max_saved_frames == 10

\* the save test with the cap off by one
ShouldSaveOffByOne(has_detection, saved) ==
    has_detection /\ saved <= max_saved_frames

\* if has_detection and saved_frames_count < max_saved_frames
ShouldSave(has_detection, saved) ==
    has_detection /\ saved < max_saved_frames

\* One iteration of the while loop after a successful cap.read(): st holds
\* the loop's variables, cls the classes the detector reports for the frame
\* read, ts the clock when the frame is handled.
LoopStep(st, interval, cls, ts) ==
    IF st.frame_count % interval = 0
    THEN LET save == ShouldSave(cls # <<>>, st.saved_frames_count)
         IN  [frame_count |-> st.frame_count + 1,
              total_summary |-> CountClasses(cls, st.total_summary),
              key_frame_paths |->
                  IF save
                  THEN Append(st.key_frame_paths,
                              FramePath(ts, st.saved_frames_count))
                  ELSE st.key_frame_paths,
              saved_frames_count |->
                  IF save THEN st.saved_frames_count + 1
                  ELSE st.saved_frames_count]
    ELSE [st EXCEPT !.frame_count = @ + 1]

LoopStart ==
    [frame_count |-> 0, total_summary |-> <<>>,
     key_frame_paths |-> <<>>, saved_frames_count |-> 0]

\* the whole loop on a video whose frames are all handled within second ts;
\* frames[i] is what the detector reports for the i-th frame decoded
RECURSIVE RunLoop(_, _, _, _)
RunLoop(st, interval, frames, ts) ==
    IF frames = <<>> THEN st
    ELSE RunLoop(LoopStep(st, interval, frames[1], ts), interval, Tail(frames), ts)

ProcessVideoFrames(video, ts) ==
    RunLoop(LoopStart, FrameInterval(video.fps), video.frames, ts)

Range(seq) == {seq[i] : i \in 1..Len(seq)}

----------------------------------------------------------------------------
(* Specification SpecVideo: one run of process_video_frames, frame by      *)
(* frame.  The stream may end after any frame; the clock may advance       *)
(* between frames.                                                         *)

FpsValues == {0, 1, 2}

\* what the detector may report for one frame (class indices, at most MAX_DET)
FrameDetections ==
    {cls \in {<<>>, <<0>>, <<1, 0, 1>>, <<2, 2, 2, 2, 2>>} : Len(cls) <= MAX_DET}

RECURSIVE BagOfNames(_)
BagOfNames(cls) ==
    IF cls = <<>> THEN EmptyBag
    ELSE SetToBag({names[cls[1] + 1]}) (+) BagOfNames(Tail(cls))

InitVideo ==
    /\ StoreIdle
    /\ ClassifyIdle
    /\ fps \in FpsValues
    /\ frame_count = 0
    /\ total_summary = <<>>
    /\ key_frame_paths = <<>>
    /\ saved_frames_count = 0
    /\ pc = "loop"
    /\ sampled = EmptyBag
    /\ qualifying = 0
    /\ saved_from = <<>>

ReadFrame ==
    /\ pc = "loop"
    /\ frame_count < MaxFrames
    /\ \E cls \in FrameDetections :
        LET isSampled == frame_count % FrameInterval(fps) = 0
            st == LoopStep([frame_count |-> frame_count,
                            total_summary |-> total_summary,
                            key_frame_paths |-> key_frame_paths,
                            saved_frames_count |-> saved_frames_count],
                           FrameInterval(fps), cls, now)
        IN  /\ (~isSampled) => cls = <<>>
            /\ frame_count' = st.frame_count
            /\ total_summary' = st.total_summary
            /\ key_frame_paths' = st.key_frame_paths
            /\ saved_frames_count' = st.saved_frames_count
            /\ files' = files \cup Range(st.key_frame_paths)
            /\ sampled' = IF isSampled THEN sampled (+) BagOfNames(cls) ELSE sampled
            /\ qualifying' = IF isSampled /\ cls # <<>>
                             THEN qualifying + 1 ELSE qualifying
            /\ saved_from' = IF Len(st.key_frame_paths) > Len(key_frame_paths)
                             THEN Append(saved_from, qualifying + 1) ELSE saved_from
    /\ UNCHANGED <<reports, sqlite_sequence, now, resp, fps, pc, classVars>>

EndOfStream ==
    /\ pc = "loop"
    /\ pc' = "returned"
    /\ UNCHANGED <<storeVars, fps, frame_count, total_summary, key_frame_paths,
                   saved_frames_count, sampled, qualifying, saved_from, classVars>>

Tick ==
    /\ now < MaxClock
    /\ now' = now + 1
    /\ UNCHANGED <<reports, sqlite_sequence, files, resp, videoVars, classVars>>

NextVideo == ReadFrame \/ EndOfStream \/ Tick

SpecVideo == InitVideo /\ [][NextVideo]_vars

----------------------------------------------------------------------------
(* The request handlers.  Each is one transaction on the store.            *)

\* Python truth value of a form field (None and "" are false)
FormTruthy(v) == v # None /\ v[1] # ""

\* float(s) on the strings submitted here: the value in tenths of a degree,
\* or ValueError
IsFloat(s) == s \in {"0", "12.5", "77.2"}
FloatOf(s) ==
    CASE s = "0" -> 0
      [] s = "12.5" -> 125
      [] s = "77.2" -> 772

\* predict: the try block that parses latitude and longitude
ParseLocation(latitude, longitude) ==
    IF FormTruthy(latitude) /\ ~IsFloat(latitude[1])
    THEN <<None, None>>
    ELSE IF FormTruthy(longitude) /\ ~IsFloat(longitude[1])
    THEN <<None, None>>
    ELSE <<IF FormTruthy(latitude) THEN Some(FloatOf(latitude[1])) ELSE None,
           IF FormTruthy(longitude) THEN Some(FloatOf(longitude[1])) ELSE None>>

\* rowid of the next INSERT (INTEGER PRIMARY KEY AUTOINCREMENT)
NextRowId == sqlite_sequence + 1

\* POST /predict; file is whether request.files holds "image"
Predict(file, cls, latitude, longitude) ==
    IF ~file
    THEN /\ resp' = [op |-> "predict", status |-> 400]
         /\ UNCHANGED <<reports, sqlite_sequence, files, now>>
    ELSE /\ sqlite_sequence < MaxReports
         /\ LET summary == CountClasses(cls, <<>>)
                loc == ParseLocation(latitude, longitude)
                row == PredictRow(NextRowId, summary, loc[1], loc[2], now)
            IN  /\ files' = files \cup {row.image_path}
                /\ reports' = Append(reports, row)
                /\ sqlite_sequence' = row.id
                /\ resp' = [op |-> "predict", status |-> 200,
                            report_id |-> row.id,
                            severity |-> row.severity,
                            department |-> row.department]
         /\ UNCHANGED now

\* temp_path = temp_dir / f"temp_{...}.mp4"
TempPath(ts) == <<"temp", ts>>

\* POST /predict-video; file is whether request.files holds "video"
PredictVideo(file, video) ==
    IF ~file
    THEN /\ resp' = [op |-> "predict_video", status |-> 400]
         /\ UNCHANGED <<reports, sqlite_sequence, files, now>>
    ELSE /\ sqlite_sequence < MaxReports
         /\ LET r == ProcessVideoFrames(video, now)
                key_frames == r.key_frame_paths
                row == VideoRow(NextRowId, r.total_summary, key_frames, now)
            IN  /\ files' = ((files \cup {TempPath(now)}) \cup Range(key_frames))
                                \ {TempPath(now)}
                /\ IF key_frames # <<>>
                   THEN /\ reports' = Append(reports, row)
                        /\ sqlite_sequence' = row.id
                        /\ resp' = [op |-> "predict_video", status |-> 200,
                                    report_id |-> Some(row.id),
                                    severity |-> row.severity]
                   ELSE /\ UNCHANGED <<reports, sqlite_sequence>>
                        /\ resp' = [op |-> "predict_video", status |-> 200,
                                    report_id |-> None,
                                    severity |-> VideoSeverity(r.total_summary)]
         /\ UNCHANGED now

\* "not report_id" on the JSON value: None and 0 are false
IdFalsy(report_id) == report_id = None \/ report_id[1] = 0

\* POST /feedback
Feedback(report_id, feedback_value) ==
    IF IdFalsy(report_id) \/ feedback_value \notin {Some("correct"), Some("incorrect")}
    THEN /\ resp' = [op |-> "feedback", status |-> 400,
                     report_id |-> report_id, feedback |-> feedback_value]
         /\ UNCHANGED <<reports, sqlite_sequence, files, now>>
    ELSE /\ reports' = [i \in 1..Len(reports) |->
                          IF reports[i].id = report_id[1]
                          THEN [reports[i] EXCEPT !.feedback = feedback_value]
                          ELSE reports[i]]
         /\ resp' = [op |-> "feedback", status |-> 200,
                     report_id |-> report_id, feedback |-> feedback_value]
         /\ UNCHANGED <<sqlite_sequence, files, now>>

\* the rows left by DELETE FROM reports WHERE id = ?
RECURSIVE RowsWithout(_, _)
RowsWithout(rows, id) ==
    IF rows = <<>> THEN <<>>
    ELSE IF rows[1].id = id THEN RowsWithout(Tail(rows), id)
    ELSE <<rows[1]>> \o RowsWithout(Tail(rows), id)

\* POST /delete-report/<int:report_id>
DeleteReport(report_id) ==
    /\ IF \E i \in 1..Len(reports) : reports[i].id = report_id
       THEN LET row == reports[CHOOSE i \in 1..Len(reports) : reports[i].id = report_id]
            IN  /\ files' = files \ {row.image_path}
                /\ reports' = RowsWithout(reports, report_id)
       ELSE UNCHANGED <<reports, files>>
    /\ resp' = [op |-> "delete_report", status |-> 302, report_id |-> report_id]
    /\ UNCHANGED <<sqlite_sequence, now>>

\* delete_all without the img.exists() test: os.remove raises on the first
\* missing file, before DELETE FROM reports is reached
DeleteAllReportsNoExistsTest ==
    LET paths == {reports[i].image_path : i \in 1..Len(reports)}
    IN  /\ IF paths \subseteq files
           THEN files' = files \ paths /\ reports' = <<>>
           ELSE UNCHANGED <<files, reports>>
        /\ resp' = [op |-> "delete_all",
                    status |-> IF paths \subseteq files THEN 302 ELSE 500,
                    paths |-> paths, missing |-> paths \ files]
        /\ UNCHANGED <<sqlite_sequence, now>>

\* POST /delete_all.  paths and missing record the image_path values the
\* SELECT returned and those with no file; they are kept for the properties.
DeleteAllReports ==
    /\ files' = files \ {reports[i].image_path : i \in 1..Len(reports)}
    /\ reports' = <<>>
    /\ resp' = [op |-> "delete_all", status |-> 302,
                paths |-> {reports[i].image_path : i \in 1..Len(reports)},
                missing |-> {reports[i].image_path : i \in 1..Len(reports)} \ files]
    /\ UNCHANGED <<sqlite_sequence, now>>

\* GET /fix-departments.  nth counts the consecutive runs (1, then 2 for
\* every later one) and is kept for the properties only.
FixDepartments ==
    /\ reports' = [i \in 1..Len(reports) |-> BackfillRow(reports[i])]
    /\ resp' = [op |-> "fix_departments", status |-> 200,
                updated_count |->
                    Cardinality({i \in 1..Len(reports) : BackfillUpdates(reports[i])}),
                nth |-> IF resp.op = "fix_departments" THEN 2 ELSE 1]
    /\ UNCHANGED <<sqlite_sequence, files, now>>

\* Python truth value of a coordinate read from the table (None and 0.0 are false)
FloatTruthy(v) == v # None /\ v[1] # 0

\* weight = 0.5 if severity == "Low" else 1.0 if severity == "Medium" else 2.0
Weight(severity) ==
    IF severity = "Low" THEN 5 ELSE IF severity = "Medium" THEN 10 ELSE 20

\* history: heatmap_points over rows given in the order of the SELECT
RECURSIVE HeatmapPoints(_)
HeatmapPoints(rows) ==
    IF rows = <<>> THEN <<>>
    ELSE (IF FloatTruthy(rows[1].latitude) /\ FloatTruthy(rows[1].longitude)
          THEN << <<rows[1].latitude[1], rows[1].longitude[1],
                    Weight(rows[1].severity)>> >>
          ELSE <<>>)
         \o HeatmapPoints(Tail(rows))

\* history: the inner loop over summary_dict.items(), garbage tested first
RECURSIVE HistoryCountKeys(_, _)
HistoryCountKeys(items, acc) ==
    IF items = <<>> THEN acc
    ELSE HistoryCountKeys(Tail(items),
            IF Contains(Lower(items[1][1]), GARBAGE)
            THEN [acc EXCEPT !.total_garbage = @ + items[1][2]]
            ELSE IF Contains(Lower(items[1][1]), POTHOLE)
            THEN [acc EXCEPT !.total_pothole = @ + items[1][2]]
            ELSE acc)

\* history: the statistics accumulated over the rows
RECURSIVE HistoryStats(_, _)
HistoryStats(rows, acc) ==
    IF rows = <<>> THEN acc
    ELSE LET summary_dict == IF rows[1].summary # None
                             THEN JsonLoads(rows[1].summary[1]) ELSE <<>>
         IN  HistoryStats(Tail(rows),
                IF summary_dict = <<>>
                THEN [acc EXCEPT !.no_issue_reports = @ + 1]
                ELSE HistoryCountKeys(summary_dict, acc))

\* ORDER BY id DESC
Descending(rows) == [i \in 1..Len(rows) |-> rows[Len(rows) + 1 - i]]

\* GET /history
History ==
    /\ resp' = [op |-> "history", status |-> 200,
                stats |-> HistoryStats(Descending(reports),
                             [total_reports |-> Len(reports), total_garbage |-> 0,
                              total_pothole |-> 0, no_issue_reports |-> 0]),
                heatmap_points |-> HeatmapPoints(Descending(reports))]
    /\ UNCHANGED <<reports, sqlite_sequence, files, now>>

\* get_home_stats: the inner loop over data.items(), pothole tested first
RECURSIVE HomeCountKeys(_, _)
HomeCountKeys(items, acc) ==
    IF items = <<>> THEN acc
    ELSE HomeCountKeys(Tail(items),
            IF Contains(Lower(items[1][1]), POTHOLE)
            THEN [acc EXCEPT !.total_potholes = @ + items[1][2]]
            ELSE IF Contains(Lower(items[1][1]), GARBAGE)
            THEN [acc EXCEPT !.total_garbage = @ + items[1][2]]
            ELSE acc)

\* get_home_stats: the loop over the rows of SELECT summary FROM reports
RECURSIVE HomeStats(_, _)
HomeStats(rows, acc) ==
    IF rows = <<>> THEN acc
    ELSE HomeStats(Tail(rows),
            IF rows[1].summary # None
            THEN HomeCountKeys(JsonLoads(rows[1].summary[1]), acc)
            ELSE acc)

\* get_home_stats: SELECT COUNT(*), then the loop
GetHomeStats(rows) ==
    HomeStats(rows, [total_reports |-> Len(rows), total_potholes |-> 0,
                     total_garbage |-> 0, avg_inference |-> "120ms",
                     model_accuracy |-> 78])

\* GET /
Index ==
    /\ resp' = [op |-> "index", status |-> 200, stats |-> GetHomeStats(reports)]
    /\ UNCHANGED <<reports, sqlite_sequence, files, now>>

----------------------------------------------------------------------------
(* Requests.  The handlers are the same in every specification of the      *)
(* store; a specification chooses which requests arrive and the sets their *)
(* inputs are drawn from.                                                  *)

\* what the detector may report for a submitted image
ImageDetections ==
    {cls \in {<<>>, <<1, 0>>, <<0, 2, 2, 0>>} : Len(cls) <= MAX_DET}

\* submitted videos: the frame rate read and, per decoded frame, what the
\* detector would report for it
Videos ==
    { [fps |-> 1, frames |-> << <<0>> >>],
      [fps |-> 2, frames |-> << <<2>>, <<0>>, <<1, 1, 1>>, <<>> >>],
      [fps |-> 0, frames |-> << <<>>, <<0>> >>] }

\* latitude / longitude form fields: missing, empty, non-numeric, numeric
FormValues == {None, Some(""), Some("abc"), Some("0"), Some("12.5")}

\* report ids a request may name
RequestIds == 1..(MaxReports + 1)

FeedbackValues == {None, Some("correct"), Some("incorrect"), Some("maybe")}

Init ==
    /\ StoreIdle
    /\ VideoIdle
    /\ ClassifyIdle

\* an image submitted without location fields, or no image at all
SubmitImage ==
    /\ \E file \in BOOLEAN, cls \in ImageDetections :
        /\ (~file) => cls = <<>>
        /\ Predict(file, cls, None, None)
    /\ UNCHANGED <<videoVars, classVars>>

\* an image submitted with latitude and longitude form fields
SubmitLocatedImage ==
    /\ \E cls \in ImageDetections, latitude, longitude \in FormValues :
        Predict(TRUE, cls, latitude, longitude)
    /\ UNCHANGED <<videoVars, classVars>>

SubmitVideo ==
    /\ \E file \in BOOLEAN, video \in Videos :
        /\ (~file) => video.fps = 0
        /\ PredictVideo(file, video)
    /\ UNCHANGED <<videoVars, classVars>>

FeedbackRequest ==
    /\ \E report_id \in {None, Some(0)} \cup {Some(i) : i \in RequestIds},
          feedback_value \in FeedbackValues :
        Feedback(report_id, feedback_value)
    /\ UNCHANGED <<videoVars, classVars>>

DeleteReportRequest ==
    /\ \E report_id \in RequestIds : DeleteReport(report_id)
    /\ UNCHANGED <<videoVars, classVars>>

DeleteAllRequest ==
    /\ DeleteAllReports
    /\ UNCHANGED <<videoVars, classVars>>

FixDepartmentsRequest ==
    /\ FixDepartments
    /\ UNCHANGED <<videoVars, classVars>>

HistoryRequest ==
    /\ History
    /\ UNCHANGED <<videoVars, classVars>>

----------------------------------------------------------------------------
(* Specification Spec: the contents of the table.  Images and videos are   *)
(* submitted, feedback is given, reports are deleted and the department    *)
(* backfill is run, in any order.                                          *)

Next ==
    \/ SubmitImage
    \/ SubmitVideo
    \/ FeedbackRequest
    \/ DeleteReportRequest
    \/ FixDepartmentsRequest

Spec == Init /\ [][Next]_vars

----------------------------------------------------------------------------
(* Specification SpecFiles: the media files.  Images and videos are        *)
(* submitted and reports are deleted, one by one or all at once, while the *)
(* clock advances.                                                         *)

NextFiles ==
    \/ SubmitImage
    \/ SubmitVideo
    \/ DeleteReportRequest
    \/ DeleteAllRequest
    \/ Tick

SpecFiles == Init /\ [][NextFiles]_vars

----------------------------------------------------------------------------
(* Specification SpecGeo: locations.  Images are submitted with location   *)
(* form fields, reports are deleted and the history view is read.          *)

NextGeo ==
    \/ SubmitLocatedImage
    \/ DeleteReportRequest
    \/ HistoryRequest

SpecGeo == Init /\ [][NextGeo]_vars

----------------------------------------------------------------------------
(* Specification SpecStats: the two aggregations.  Images are submitted,   *)
(* reports are deleted, and the home page and the history view are read.   *)

\* what the detector may report for a submitted image, over every class
StatsDetections ==
    {cls \in {<<>>, <<0>>, <<1, 1>>, <<3>>, <<2, 3, 0, 1, 1>>} : Len(cls) <= MAX_DET}

SubmitStatsImage ==
    /\ \E cls \in StatsDetections : Predict(TRUE, cls, None, None)
    /\ UNCHANGED <<videoVars, classVars>>

IndexRequest ==
    /\ Index
    /\ UNCHANGED <<videoVars, classVars>>

NextStats ==
    \/ SubmitStatsImage
    \/ DeleteReportRequest
    \/ IndexRequest
    \/ HistoryRequest

SpecStats == Init /\ [][NextStats]_vars

----------------------------------------------------------------------------
(* Properties of the Classifier rules (SpecClassify).                      *)

IsPotholeKey(key) == Contains(Lower(key), POTHOLE)
IsGarbageKey(key) == Contains(Lower(key), GARBAGE)

\* the department decided by the first matching key of a summary
FirstMatchDepartment(summary) ==
    LET matching == {i \in 1..Len(summary) :
                        IsPotholeKey(summary[i][1]) \/ IsGarbageKey(summary[i][1])}
    IN  IF matching = {} THEN "General"
        ELSE LET first == CHOOSE i \in matching : \A j \in matching : i <= j
             IN  IF IsPotholeKey(summary[first][1])
                 THEN "Roads Department"
                 ELSE "Department of Environment"

\* the total detection count of a summary, counted unit by unit
UnitCount(summary) ==
    Cardinality(UNION {{<<i, j>> : j \in 1..summary[i][2]} : i \in 1..Len(summary)})

\* C8: the department written by an image submission, and the department a
\* row holds after the backfill, is the one decided by the first key of the
\* summary (in stored key order) that contains "pothole" or "garbage":
\* Roads Department for a pothole match, Department of Environment for a
\* garbage match, General when no key matches.
C8_FirstMatchWins ==
    c_out.rule \in {"predict", "fix_departments"}
        => c_out.row[1].department = FirstMatchDepartment(c_summary)

\* a garbage key stored before a pothole key routes to the Department of
\* Environment, both from an image submission and from the backfill
C8_Witness ==
    /\ c_out.rule = "fix_departments"
    /\ c_out.row[1].type = "image"
    /\ Len(c_summary) = 2
    /\ IsGarbageKey(c_summary[1][1]) /\ ~IsPotholeKey(c_summary[1][1])
    /\ IsPotholeKey(c_summary[2][1])
    /\ c_out.row[1].department = "Department of Environment"

\* C9: with t the total detection count of the summary, an image submission
\* is graded Low for t <= 1, Medium for 2 <= t <= 3 and High for t > 3; a
\* video submission Low for t <= 5, Medium for 6 <= t <= 15, High for t > 15.
C9_SeverityThresholds ==
    LET t == UnitCount(c_summary)
    IN  /\ c_out.rule = "predict" =>
            /\ t <= 1 => c_out.row[1].severity = "Low"
            /\ (2 <= t /\ t <= 3) => c_out.row[1].severity = "Medium"
            /\ t > 3 => c_out.row[1].severity = "High"
        /\ c_out.rule = "predict_video" =>
            /\ t <= 5 => c_out.row[1].severity = "Low"
            /\ (6 <= t /\ t <= 15) => c_out.row[1].severity = "Medium"
            /\ t > 15 => c_out.row[1].severity = "High"

\* a video submission whose summary totals exactly 15 is graded Medium
C9_Witness ==
    /\ c_out.rule = "predict_video"
    /\ UnitCount(c_summary) = 15
    /\ c_out.row[1].severity = "Medium"

----------------------------------------------------------------------------
(* Properties of process_video_frames (SpecVideo).                         *)

\* C2: at every point of the loop at most 10 keyframes are saved; when the
\* loop has returned and more than 10 sampled frames held a detection,
\* exactly 10 distinct keyframe paths are returned, all written to storage;
\* the keyframes are the first qualifying sampled frames, in order; and the
\* total summary holds, for every class name, the number of detections of
\* that class over all sampled frames, saved or not.
C2_FrameSamplerCap ==
    /\ saved_frames_count <= 10
    /\ Len(key_frame_paths) = saved_frames_count
    /\ Range(key_frame_paths) \subseteq files
    /\ pc = "returned" =>
        /\ qualifying > 10 =>
            /\ Len(key_frame_paths) = 10
            /\ Cardinality(Range(key_frame_paths)) = 10
        /\ saved_from = [i \in 1..(IF qualifying < 10 THEN qualifying ELSE 10) |-> i]
        /\ \A k \in NameSet : DictGet(total_summary, k) = CopiesIn(k, sampled)
        /\ \A i \in 1..Len(total_summary) : total_summary[i][2] > 0

\* a run returned with more qualifying frames than the cap: the frames past
\* the cap were counted but not saved
C2_Witness ==
    /\ pc = "returned"
    /\ qualifying > 10
    /\ Len(key_frame_paths) = 10
    /\ BagCardinality(sampled) > 10

----------------------------------------------------------------------------
(* Properties of the table (Spec).                                         *)

StoredSummary(row) == JsonLoads(row.summary[1])

\* C1: every stored report's severity and department are the ones the
\* Classifier rules give for its stored summary and kind.
C1_DerivedFieldsMatchRules ==
    \A i \in 1..Len(reports) :
        /\ reports[i].severity =
              IF reports[i].type = "image"
              THEN ImageSeverity(StoredSummary(reports[i]))
              ELSE VideoSeverity(StoredSummary(reports[i]))
        /\ reports[i].department = FirstMatchDepartment(StoredSummary(reports[i]))

Departments(rows) == [i \in 1..Len(rows) |-> <<rows[i].id, rows[i].department>>]

\* C3 as stated: a backfill run straight after a backfill leaves the same
\* department values and reports an updated count of zero.
C3_SecondRunReportsZero ==
    [][(resp.op = "fix_departments" /\ resp'.op = "fix_departments")
        => (Departments(reports') = Departments(reports)
            /\ resp'.updated_count = 0)]_vars

\* C3 amended: a backfill run straight after a backfill leaves every row as
\* it was, and reports the same updated count as the run before it, which
\* is the number of rows whose summary has a pothole or garbage key.
C3_SecondRunRepeatsCount ==
    [][(resp.op = "fix_departments" /\ resp'.op = "fix_departments")
        => (/\ reports' = reports
            /\ resp'.updated_count = resp.updated_count
            /\ resp'.updated_count =
                 Cardinality({i \in 1..Len(reports) :
                    FirstMatchDepartment(StoredSummary(reports[i])) # "General"}))]_vars

\* a second consecutive backfill has run over a table with a matching row
C3_Witness ==
    /\ resp.op = "fix_departments"
    /\ resp.nth = 2
    /\ resp.updated_count > 0

\* C4: a feedback request whose value is not correct/incorrect, or whose
\* report id is missing or names no stored report, gets an error status and
\* leaves the table unchanged.
C4_InvalidFeedbackRejected ==
    [][(/\ resp'.op = "feedback"
        /\ \/ resp'.feedback \notin {Some("correct"), Some("incorrect")}
           \/ resp'.report_id = None
           \/ \A i \in 1..Len(reports) : reports[i].id # resp'.report_id[1])
        => (resp'.status # 200 /\ reports' = reports)]_vars

----------------------------------------------------------------------------
(* Properties of the media files (SpecFiles).                              *)

\* C5: a delete of report id removes the row with that id and no other, and
\* every report that remains keeps its media file if it had one.
C5_DeleteRemovesOnlyItsOwn ==
    [][resp'.op = "delete_report"
        => (/\ reports' = SelectSeq(reports, LAMBDA r : r.id # resp'.report_id)
            /\ \A i \in 1..Len(reports') :
                 reports'[i].image_path \in files
                    => reports'[i].image_path \in files')]_vars

\* C10: after delete_all the table is empty and no file that a report's
\* image_path named before the deletion is left on storage.
C10_DeleteAllLeavesNothing ==
    resp.op = "delete_all"
        => (/\ reports = <<>>
            /\ resp.paths \cap files = {})

\* delete_all has run over a row whose file was already missing, and the
\* table is empty
C10_Witness ==
    /\ resp.op = "delete_all"
    /\ resp.missing # {}
    /\ reports = <<>>

----------------------------------------------------------------------------
(* Properties of locations (SpecGeo).                                      *)

\* C6: every stored report has both coordinates or neither.
C6_CoordinatesPaired ==
    \A i \in 1..Len(reports) :
        (reports[i].latitude = None) <=> (reports[i].longitude = None)

\* the heatmap point of a report, the weight in tenths
PointOf(row) ==
    <<row.latitude[1], row.longitude[1],
      CASE row.severity = "Low" -> 5
        [] row.severity = "Medium" -> 10
        [] row.severity = "High" -> 20>>

\* C7: the history view lists one heatmap point for every stored report
\* with both coordinates present, zero included, and none for the others;
\* its weight is 0.5 for Low, 1.0 for Medium and 2.0 for High.
C7_HeatmapCoversLocatedReports ==
    resp.op = "history" =>
        LET located == SelectSeq(Descending(reports),
                LAMBDA r : r.latitude # None /\ r.longitude # None)
        IN  resp.heatmap_points = [i \in 1..Len(located) |-> PointOf(located[i])]

----------------------------------------------------------------------------
(* Properties of the aggregations (SpecStats).                             *)

\* the category one key counts toward, pothole tested before garbage
CategoryOf(key) ==
    IF IsPotholeKey(key) THEN "pothole"
    ELSE IF IsGarbageKey(key) THEN "garbage"
    ELSE "other"

\* the detections stored under keys of one category, counted unit by unit
CategoryTotal(rows, category) ==
    Cardinality(UNION {UNION {{<<i, j, u>> : u \in 1..StoredSummary(rows[i])[j][2]} :
                                j \in {n \in 1..Len(StoredSummary(rows[i])) :
                                         CategoryOf(StoredSummary(rows[i])[n][1]) = category}} :
                       i \in 1..Len(rows)})

\* C11: the home page statistics and the history statistics both report the
\* number of rows as total_reports, and as pothole and garbage totals the
\* counts of the keys of each category, every key counting toward exactly
\* one category, pothole tested before garbage; so the two agree.
C11_AggregationPathsAgree ==
    /\ resp.op = "index" =>
        /\ resp.stats.total_reports = Len(reports)
        /\ resp.stats.total_potholes = CategoryTotal(reports, "pothole")
        /\ resp.stats.total_garbage = CategoryTotal(reports, "garbage")
    /\ resp.op = "history" =>
        /\ resp.stats.total_reports = Len(reports)
        /\ resp.stats.total_pothole = CategoryTotal(reports, "pothole")
        /\ resp.stats.total_garbage = CategoryTotal(reports, "garbage")
        /\ resp.stats.total_pothole = GetHomeStats(reports).total_potholes
        /\ resp.stats.total_garbage = GetHomeStats(reports).total_garbage

====
